---- MODULE Spec2Model ----
(***************************************************************************)
(* A model of the WebSocket MCP server of mcp_websearch_server.py: the     *)
(* per-connection handler handle_websocket, the tool functions list_tools  *)
(* and call_tool, the provider adapter search_with_claude, and the clients *)
(* that drive them (test_mcp_client.py).                                   *)
(*                                                                         *)
(* Python values are modelled as tagged records, one shape per Python type:*)
(*   None  [type |-> "null"]            bool  [type |-> "bool", b |-> ..]  *)
(*   int   [type |-> "int", i |-> ..]   str   [type |-> "str", s |-> ..]   *)
(*   list  [type |-> "list", elems |-> <<..>>]                             *)
(*   dict  [type |-> "dict", items |-> <<[k |-> key, v |-> value], ..>>]   *)
(* A dict keeps its items in insertion order, as Python's dict does.       *)
(***************************************************************************)
EXTENDS Integers, Sequences, FiniteSets, TLC

VARIABLES
    clients,    \* how the clients of this run behave: "single" or "pipelined"
    inbox,      \* per connection: messages on the wire, not yet received
    open,       \* per connection: the transport is open
    pc,         \* per connection: where its handler task stands
    exit,       \* per connection: why the handler's loop has ended
    request,    \* per connection: the handler's local variable `request`
    cur,        \* per connection: the message being handled
    pending,    \* per connection: the envelope about to be sent
    out,        \* per connection: the last exchange completed by a send
    nrecv,      \* per connection: messages taken from the transport
    nsent,      \* per connection: envelopes sent
    ncalls,     \* per connection: provider calls begun for the current message
    outcome     \* per connection: what the current message's provider call did

vars == <<clients, inbox, open, pc, exit, request, cur, pending, out,
          nrecv, nsent, ncalls, outcome>>

-----------------------------------------------------------------------------
(* Bounds of the model.                                                    *)

\* messages a client sends on one connection
MaxMsgs == 2
\* messages a pipelining client keeps in flight on one connection
MaxInbox == 2
\* content blocks in a response of the stubbed provider
MaxBlocks == 2

Conns == {"c1", "c2"}

-----------------------------------------------------------------------------
(* Python values.                                                          *)

None == [type |-> "null"]
JBool(b) == [type |-> "bool", b |-> b]
JInt(i) == [type |-> "int", i |-> i]
JStr(s) == [type |-> "str", s |-> s]
JList(e) == [type |-> "list", elems |-> e]
JDict(it) == [type |-> "dict", items |-> it]
KV(k, v) == [k |-> k, v |-> v]

\* A name that is not bound in the function's locals().
Unbound == [type |-> "unbound"]

\* isinstance(v, dict)
IsDict(v) == v.type = "dict"

\* key in d, for a dict d
HasKey(d, key) == \E n \in 1..Len(d.items) : d.items[n].k = key

\* d[key] for a dict d holding key: json.loads keeps the last of equal keys
Lookup(d, key) ==
    LET hits == {n \in 1..Len(d.items) : d.items[n].k = key}
        last == CHOOSE n \in hits : \A m \in hits : m <= n
    IN  d.items[last].v

\* d.get(key, default) for a dict d
DictGet(d, key, default) == IF HasKey(d, key) THEN Lookup(d, key) ELSE default

\* type(v).__name__
PyTypeName(v) ==
    CASE v.type = "null" -> "NoneType"
      [] v.type = "bool" -> "bool"
      [] v.type = "int"  -> "int"
      [] v.type = "str"  -> "str"
      [] v.type = "list" -> "list"
      [] v.type = "dict" -> "dict"

\* str(e) of the AttributeError that v.get raises when v is not a dict
NoGetError(v) == "'" \o PyTypeName(v) \o "' object has no attribute 'get'"

RECURSIVE PyRepr(_)
RECURSIVE ReprElems(_)
RECURSIVE ReprItems(_)

\* repr(v)
PyRepr(v) ==
    CASE v.type = "null" -> "None"
      [] v.type = "bool" -> IF v.b THEN "True" ELSE "False"
      [] v.type = "int"  -> ToString(v.i)
      [] v.type = "str"  -> "'" \o v.s \o "'"
      [] v.type = "list" -> "[" \o ReprElems(v.elems) \o "]"
      [] v.type = "dict" -> "{" \o ReprItems(v.items) \o "}"

ReprElems(e) ==
    IF e = <<>> THEN ""
    ELSE IF Len(e) = 1 THEN PyRepr(e[1])
    ELSE PyRepr(e[1]) \o ", " \o ReprElems(Tail(e))

ReprItems(it) ==
    IF it = <<>> THEN ""
    ELSE IF Len(it) = 1 THEN "'" \o it[1].k \o "': " \o PyRepr(it[1].v)
    ELSE "'" \o it[1].k \o "': " \o PyRepr(it[1].v) \o ", " \o ReprItems(Tail(it))

\* str(v), which an f-string applies to an interpolated value
PyStr(v) == IF v.type = "str" THEN v.s ELSE PyRepr(v)

-----------------------------------------------------------------------------
(* The wire.  A message is a text that is no JSON document, or the JSON    *)
(* document of a value.                                                    *)

NotJson(t) == [json |-> FALSE, text |-> t]
Doc(v) == [json |-> TRUE, value |-> v]

\* json.loads(message): the decoded value, or the JSONDecodeError's str()
json_loads(m) ==
    IF m.json THEN [ok |-> TRUE, value |-> m.value]
    ELSE [ok |-> FALSE, err |-> "Expecting value: line 1 column 1 (char 0)"]

\* json.dumps(response): every value the handler builds is serialisable
json_dumps(v) == Doc(v)

-----------------------------------------------------------------------------
(* The search provider and its adapter.                                    *)

TextBlock(t) == [type |-> "text", text |-> t]
ToolUseBlock(name, input) == [type |-> "tool_use", name |-> name, input |-> input]

\* client.messages.create(...): raises, or returns a response with content
Raises(desc) == [raised |-> TRUE, desc |-> desc]
Returns(content) == [raised |-> FALSE, content |-> content]

ProviderOutcomes ==
    { Raises("Connection error."),
      Returns(<<>>),
      Returns(<<TextBlock("A")>>),
      Returns(<<ToolUseBlock("web_search", JDict(<<KV("query", JStr("q"))>>))>>),
      Returns(<<TextBlock("A"),
                ToolUseBlock("web_search", JStr("not json")),
                TextBlock("B")>>) }

\* a block of type text that carries no text attribute
TextlessBlock == [type |-> "text"]

\* search_with_claude replaced by a test double that raises
DoubleRaises(desc) == [double |-> TRUE, desc |-> desc]
IsDouble(o) == "double" \in DOMAIN o

\* the blocks a stubbed provider builds its responses from
StubBlocks ==
    { TextBlock("A"), TextBlock("B"),
      ToolUseBlock("web_search", JStr("not json")),
      TextlessBlock }

\* the outcomes drawn in the runs with a stubbed provider: every response of
\* up to MaxBlocks blocks, a provider that raises, an adapter double that
\* raises
StubOutcomes ==
    { Raises("Connection error."), Raises("authentication_error"),
      DoubleRaises("boom") }
    \cup { Returns(s) : s \in UNION { [1..k -> StubBlocks] : k \in 0..MaxBlocks } }

\* the outcomes drawn in the runs with two pipelining clients
FewOutcomes == {Raises("Connection error."), Returns(<<TextBlock("A")>>)}

\* the inner try of the tool_use branch: the query it logs, or the failure
\* it logs; the str inputs of this model are no JSON documents
InspectToolInput(input) ==
    IF input.type = "str"
    THEN [ok |-> FALSE, err |-> json_loads(NotJson(input.s)).err]
    ELSE IF IsDict(input)
    THEN [ok |-> TRUE, query |-> DictGet(input, "query", JStr(""))]
    ELSE [ok |-> FALSE, err |-> NoGetError(input)]

RECURSIVE ExtractTexts_InspectionAborts(_)
\* a variant whose loop ends at a tool_use block that cannot be inspected
ExtractTexts_InspectionAborts(content) ==
    IF content = <<>> THEN <<>>
    ELSE IF Head(content).type = "text"
         THEN <<Head(content).text>> \o ExtractTexts_InspectionAborts(Tail(content))
         ELSE IF /\ Head(content).type = "tool_use"
                 /\ Head(content).name = "web_search"
                 /\ ~InspectToolInput(Head(content).input).ok
              THEN <<>>
              ELSE ExtractTexts_InspectionAborts(Tail(content))

RECURSIVE ExtractTexts(_)
\* the for loop over response.content: search_results after the loop
ExtractTexts(content) ==
    IF content = <<>> THEN <<>>
    ELSE IF Head(content).type = "text"
         THEN <<Head(content).text>> \o ExtractTexts(Tail(content))
         ELSE IF Head(content).type = "tool_use" /\ Head(content).name = "web_search"
              THEN LET logged == InspectToolInput(Head(content).input)
                   IN  ExtractTexts(Tail(content))
              ELSE ExtractTexts(Tail(content))

\* str(e) of the AttributeError that content_block.text raises in the loop
NoTextError == "'Block' object has no attribute 'text'"

\* some block of the content makes the loop raise
LoopRaises(content) ==
    \E n \in 1..Len(content) :
        content[n].type = "text" /\ "text" \notin DOMAIN content[n]

RECURSIVE JoinLines(_)
\* "\n".join(search_results)
JoinLines(texts) ==
    IF texts = <<>> THEN ""
    ELSE IF Len(texts) = 1 THEN texts[1]
    ELSE texts[1] \o "\n" \o JoinLines(Tail(texts))

\* a variant whose except clause returns the bare description
search_with_claude_BareDescription(o) ==
    IF o.raised THEN o.desc
    ELSE IF LoopRaises(o.content) THEN NoTextError
    ELSE LET search_results == ExtractTexts(o.content)
         IN  IF search_results # <<>> THEN JoinLines(search_results)
             ELSE "No related search results found."

\* search_with_claude(query), given what the provider call did
search_with_claude(o) ==
    IF o.raised THEN "Search failed: " \o o.desc
    ELSE IF LoopRaises(o.content) THEN "Search failed: " \o NoTextError
    ELSE LET search_results == ExtractTexts(o.content)
         IN  IF search_results # <<>> THEN JoinLines(search_results)
             ELSE "No related search results found."

-----------------------------------------------------------------------------
(* The tools.                                                              *)

TextContent(t) == [type |-> "text", text |-> t]

\* a variant whose schema does not require query
ToolDict_QueryOptional ==
    JDict(<<
      KV("name", JStr("smart_web_search")),
      KV("description", JStr("Searches the web and provides concise, insight-rich summaries from live data.")),
      KV("inputSchema", JDict(<<
         KV("type", JStr("object")),
         KV("properties", JDict(<<
            KV("query", JDict(<<
               KV("type", JStr("string")),
               KV("description", JStr("The content to search, can be any question or topic"))>>))>>)),
         KV("required", JList(<<>>))>>))>>)

\* tool.dict() for the one Tool that list_tools returns
ToolDict ==
    JDict(<<
      KV("name", JStr("smart_web_search")),
      KV("description", JStr("Searches the web and provides concise, insight-rich summaries from live data.")),
      KV("inputSchema", JDict(<<
         KV("type", JStr("object")),
         KV("properties", JDict(<<
            KV("query", JDict(<<
               KV("type", JStr("string")),
               KV("description", JStr("The content to search, can be any question or topic"))>>))>>)),
         KV("required", JList(<<JStr("query")>>))>>))>>)

\* list_tools(), each tool as its dict
list_tools == <<ToolDict>>

\* a variant that validates the arguments before it looks at the name
call_tool_ArgumentsFirst(name, arguments) ==
    IF ~IsDict(arguments) \/ ~HasKey(arguments, "query")
    THEN [await |-> FALSE,
          results |-> <<TextContent("Invalid arguments for smart_web_search: "
                                     \o PyStr(arguments))>>]
    ELSE IF name # JStr("smart_web_search")
    THEN [await |-> FALSE,
          results |-> <<TextContent("Unknown tool: " \o PyStr(name))>>]
    ELSE [await |-> TRUE, query |-> Lookup(arguments, "query")]

\* a variant that does not validate the arguments
call_tool_NoValidation(name, arguments) ==
    IF name # JStr("smart_web_search")
    THEN [await |-> FALSE,
          results |-> <<TextContent("Unknown tool: " \o PyStr(name))>>]
    ELSE [await |-> TRUE,
          query |-> IF IsDict(arguments) THEN DictGet(arguments, "query", None)
                    ELSE None]

\* call_tool(name, arguments) up to its await: the list it returns at once,
\* or the query it hands to search_with_claude
call_tool(name, arguments) ==
    IF name # JStr("smart_web_search")
    THEN [await |-> FALSE,
          results |-> <<TextContent("Unknown tool: " \o PyStr(name))>>]
    ELSE IF ~IsDict(arguments) \/ ~HasKey(arguments, "query")
    THEN [await |-> FALSE,
          results |-> <<TextContent("Invalid arguments for smart_web_search: "
                                     \o PyStr(arguments))>>]
    ELSE [await |-> TRUE, query |-> Lookup(arguments, "query")]

\* call_tool after its await: the adapter's string as one text block
call_tool_return(result) == <<TextContent(result)>>

-----------------------------------------------------------------------------
(* The envelopes handle_websocket builds.                                  *)

\* a variant whose capabilities do not declare streaming
InitializeResponse_NoStreaming(request_id) ==
    JDict(<<
      KV("jsonrpc", JStr("2.0")),
      KV("result", JDict(<<
         KV("protocolVersion", JStr("1.0.0")),
         KV("serverInfo", JDict(<<
            KV("name", JStr("smart_web_search-mcp")),
            KV("version", JStr("1.0.0"))>>)),
         KV("capabilities", JDict(<<
            KV("tools", JDict(<<>>)),
            KV("streaming", JBool(FALSE))>>))>>)),
      KV("id", request_id)>>)

InitializeResponse(request_id) ==
    JDict(<<
      KV("jsonrpc", JStr("2.0")),
      KV("result", JDict(<<
         KV("protocolVersion", JStr("1.0.0")),
         KV("serverInfo", JDict(<<
            KV("name", JStr("smart_web_search-mcp")),
            KV("version", JStr("1.0.0"))>>)),
         KV("capabilities", JDict(<<
            KV("tools", JDict(<<>>)),
            KV("streaming", JBool(TRUE))>>))>>)),
      KV("id", request_id)>>)

ToolsListResponse(tools, request_id) ==
    JDict(<<
      KV("jsonrpc", JStr("2.0")),
      KV("result", JDict(<<KV("tools", JList(tools))>>)),
      KV("id", request_id)>>)

ContentBlocks(results) ==
    [n \in 1..Len(results) |->
        JDict(<<KV("type", JStr("text")), KV("text", JStr(results[n].text))>>)]

ToolsCallResponse(results, request_id) ==
    JDict(<<
      KV("jsonrpc", JStr("2.0")),
      KV("result", JDict(<<KV("content", JList(ContentBlocks(results)))>>)),
      KV("id", request_id)>>)

\* a variant that keeps a result field beside the error
MethodNotFoundResponse_WithResult(method, request_id) ==
    JDict(<<
      KV("jsonrpc", JStr("2.0")),
      KV("result", None),
      KV("error", JDict(<<
         KV("code", JInt(-32601)),
         KV("message", JStr("Method not found: " \o PyStr(method)))>>)),
      KV("id", request_id)>>)

\* a variant that reports the unknown method as an internal error
MethodNotFoundResponse_InternalError(method, request_id) ==
    JDict(<<
      KV("jsonrpc", JStr("2.0")),
      KV("error", JDict(<<
         KV("code", JInt(-32603)),
         KV("message", JStr("Method not found: " \o PyStr(method)))>>)),
      KV("id", request_id)>>)

MethodNotFoundResponse(method, request_id) ==
    JDict(<<
      KV("jsonrpc", JStr("2.0")),
      KV("error", JDict(<<
         KV("code", JInt(-32601)),
         KV("message", JStr("Method not found: " \o PyStr(method)))>>)),
      KV("id", request_id)>>)

ErrorResponse(desc, request_id) ==
    JDict(<<
      KV("jsonrpc", JStr("2.0")),
      KV("error", JDict(<<
         KV("code", JInt(-32603)),
         KV("message", JStr(desc))>>)),
      KV("id", request_id)>>)

-----------------------------------------------------------------------------
(* handle_websocket: one pass of the loop body, from json.loads to the     *)
(* first await that suspends or blocks.                                    *)

\* a variant without the except clause: the failure leaves the handler
ExceptClause_Propagates(desc, req) == [kind |-> "raise", desc |-> desc]

\* a variant that addresses every error envelope to id null
ExceptClause_NullId(desc, req) ==
    [kind |-> "respond", response |-> ErrorResponse(desc, None)]

\* the except clause: the error envelope, or the AttributeError that the
\* conditional expression for "id" raises when `request` is bound to a value
\* without .get; req is the value of `request` when the clause runs
ExceptClause(desc, req) ==
    IF req = Unbound THEN [kind |-> "respond", response |-> ErrorResponse(desc, None)]
    ELSE IF IsDict(req)
    THEN [kind |-> "respond", response |-> ErrorResponse(desc, DictGet(req, "id", None))]
    ELSE [kind |-> "raise", desc |-> NoGetError(req)]

\* a variant that takes params that is not a mapping for an empty mapping
Dispatch_DefaultsParams(req) ==
    LET method     == DictGet(req, "method", None)
        given      == DictGet(req, "params", JDict(<<>>))
        params     == IF IsDict(given) THEN given ELSE JDict(<<>>)
        request_id == DictGet(req, "id", None)
    IN  IF method = JStr("initialize")
        THEN [kind |-> "respond", response |-> InitializeResponse(request_id)]
        ELSE IF method = JStr("tools/list")
        THEN [kind |-> "respond",
              response |-> ToolsListResponse(list_tools, request_id)]
        ELSE IF method = JStr("tools/call")
        THEN LET tool_name == DictGet(params, "name", None)
                 arguments == DictGet(params, "arguments", JDict(<<>>))
                 call      == call_tool(tool_name, arguments)
             IN  IF call.await THEN [kind |-> "await", query |-> call.query]
                 ELSE [kind |-> "respond",
                       response |-> ToolsCallResponse(call.results, request_id)]
        ELSE [kind |-> "respond",
              response |-> MethodNotFoundResponse(method, request_id)]

\* the if/elif chain over method, for a request that is a dict
Dispatch(req) ==
    LET method     == DictGet(req, "method", None)
        params     == DictGet(req, "params", JDict(<<>>))
        request_id == DictGet(req, "id", None)
    IN  IF method = JStr("initialize")
        THEN [kind |-> "respond", response |-> InitializeResponse(request_id)]
        ELSE IF method = JStr("tools/list")
        THEN [kind |-> "respond",
              response |-> ToolsListResponse(list_tools, request_id)]
        ELSE IF method = JStr("tools/call")
        THEN IF ~IsDict(params) THEN ExceptClause(NoGetError(params), req)
             ELSE LET tool_name == DictGet(params, "name", None)
                      arguments == DictGet(params, "arguments", JDict(<<>>))
                      call      == call_tool(tool_name, arguments)
                  IN  IF call.await THEN [kind |-> "await", query |-> call.query]
                      ELSE [kind |-> "respond",
                            response |-> ToolsCallResponse(call.results, request_id)]
        ELSE [kind |-> "respond",
              response |-> MethodNotFoundResponse(method, request_id)]

\* the value `request` holds after the try block has run on message m,
\* when it held req before
RequestAfter(m, req) ==
    LET d == json_loads(m) IN IF d.ok THEN d.value ELSE req

\* a variant in which a request without id inherits the id of the request
\* the handler decoded before it
Process_StaleId(m, req) ==
    LET d == json_loads(m)
    IN  IF ~d.ok THEN ExceptClause(d.err, req)
        ELSE IF ~IsDict(d.value) THEN ExceptClause(NoGetError(d.value), d.value)
        ELSE IF ~HasKey(d.value, "id") /\ IsDict(req) /\ HasKey(req, "id")
        THEN Dispatch(JDict(d.value.items \o <<KV("id", Lookup(req, "id"))>>))
        ELSE Dispatch(d.value)

\* the try block on message m
Process(m, req) ==
    LET d == json_loads(m)
    IN  IF ~d.ok THEN ExceptClause(d.err, req)
        ELSE IF ~IsDict(d.value) THEN ExceptClause(NoGetError(d.value), d.value)
        ELSE Dispatch(d.value)

\* the try block after the provider call has returned: lines 124-126 of
\* call_tool and the envelope of the tools/call branch
\* call_tool; a raise of the adapter itself is caught by no clause of
\* call_tool and reaches the handler's except clause
Resume(req, o) ==
    IF IsDouble(o) THEN ExceptClause(o.desc, req).response
    ELSE ToolsCallResponse(call_tool_return(search_with_claude(o)),
                           DictGet(req, "id", None))

-----------------------------------------------------------------------------
(* The messages clients send.                                              *)

Ids == {Unbound, JInt(1), JStr("a")}
Methods == {Unbound, JStr("initialize"), JStr("tools/list"), JStr("foo/bar")}
PlainParams == {Unbound, None}
Names == {Unbound, JStr("smart_web_search"), JStr("other")}
Arguments ==
    {Unbound, None, JStr("q"), JDict(<<>>), JDict(<<KV("query", JStr("q"))>>)}

\* a field of a JSON object, left out when its value is Unbound
Field(k, v) == IF v = Unbound THEN <<>> ELSE <<KV(k, v)>>

Request(method, params, id) ==
    Doc(JDict(Field("jsonrpc", JStr("2.0")) \o Field("method", method)
              \o Field("params", params) \o Field("id", id)))

CallParams(name, arguments) ==
    JDict(Field("name", name) \o Field("arguments", arguments))

Garbage == {NotJson("not json")}
NonObjects == {Doc(None), Doc(JInt(7)), Doc(JStr("s")), Doc(JList(<<JInt(1)>>))}
PlainRequests ==
    {Request(m, p, i) : m \in Methods, p \in PlainParams, i \in Ids}
CallRequests ==
    {Request(JStr("tools/call"), p, i) :
        p \in {Unbound, None, JList(<<>>), JStr("s"), JInt(7)}
              \cup {CallParams(n, a) : n \in Names, a \in Arguments},
        i \in Ids}

\* initialize as the test client sends it, with a mapping as params
InitializeRequests ==
    {Request(JStr("initialize"),
             JDict(<<KV("clientInfo", JDict(<<KV("name", JStr("test-client"))>>))>>),
             i) : i \in Ids}

Messages ==
    Garbage \cup NonObjects \cup PlainRequests \cup InitializeRequests
            \cup CallRequests

\* the few messages of the runs with two pipelining clients
FewMessages ==
    { NotJson("not json"),
      Doc(JList(<<JInt(1)>>)),
      Request(JStr("initialize"), Unbound, JInt(1)),
      Request(JStr("tools/call"),
              CallParams(JStr("smart_web_search"), JDict(<<KV("query", JStr("q"))>>)),
              JStr("a")) }

\* the messages of the runs with a stubbed provider
StubMessages ==
    { Request(JStr("initialize"), Unbound, JInt(1)),
      Request(JStr("tools/call"),
              CallParams(JStr("smart_web_search"), JDict(<<KV("query", JStr("q"))>>)),
              JInt(1)) }

\* the messages the clients of a run may send
Alphabet ==
    IF clients = "single" THEN Messages
    ELSE IF clients = "stubbed" THEN StubMessages
    ELSE FewMessages

\* what the provider calls of a run may do
Outcomes ==
    IF clients = "single" THEN ProviderOutcomes
    ELSE IF clients = "stubbed" THEN StubOutcomes
    ELSE FewOutcomes

\* how many unanswered messages the client of connection c may have sent
Window(c) ==
    IF clients \in {"single", "stubbed"} THEN (IF c = "c1" THEN 1 ELSE 0)
    ELSE MaxInbox

-----------------------------------------------------------------------------
(* The state machine.                                                      *)

NoExchange == [seq |-> 0]

\* the state after websockets.serve has accepted the connections
Fresh ==
    /\ inbox = [c \in Conns |-> <<>>]
    /\ open = [c \in Conns |-> TRUE]
    /\ pc = [c \in Conns |-> "recv"]
    /\ exit = [c \in Conns |-> "none"]
    /\ request = [c \in Conns |-> Unbound]
    /\ cur = [c \in Conns |-> Unbound]
    /\ pending = [c \in Conns |-> Unbound]
    /\ out = [c \in Conns |-> NoExchange]
    /\ nrecv = [c \in Conns |-> 0]
    /\ nsent = [c \in Conns |-> 0]
    /\ ncalls = [c \in Conns |-> 0]
    /\ outcome = [c \in Conns |-> Unbound]

\* one client that, like MCPWebSocketClient.send_request, sends a message
\* and waits for its response; it draws from all of Messages
Init ==
    /\ clients = "single"
    /\ Fresh

\* one send-and-wait client, the provider (or the adapter) replaced by a stub
InitStub ==
    /\ clients = "stubbed"
    /\ Fresh

\* two clients that send ahead of the responses
InitConc ==
    /\ clients = "pipelined"
    /\ Fresh

\* client.messages.create is a synchronous call made on the event loop's
\* thread: while it runs, no task of the loop runs
LoopBlocked == \E d \in Conns : pc[d] = "provider"

\* a variant that takes the next message while an envelope waits to be sent
AtReceive_Pipelined(c) == pc[c] \in {"recv", "send"}

\* the handler of connection c stands at `async for message in websocket`:
\* the loop takes a message only when the body has run to its end
AtReceive(c) == pc[c] = "recv"

\* a client sends message m on connection c
ClientSend(c, m) ==
    /\ open[c]
    /\ m \in Alphabet
    /\ nrecv[c] + Len(inbox[c]) < MaxMsgs
    /\ nrecv[c] + Len(inbox[c]) - nsent[c] < Window(c)
    /\ inbox' = [inbox EXCEPT ![c] = Append(@, m)]
    /\ UNCHANGED <<clients, open, pc, exit, request, cur, pending, out,
                   nrecv, nsent, ncalls, outcome>>

\* the transport of connection c closes; what was in flight is lost
TransportClose(c) ==
    /\ open[c]
    /\ open' = [open EXCEPT ![c] = FALSE]
    /\ inbox' = [inbox EXCEPT ![c] = <<>>]
    /\ UNCHANGED <<clients, pc, exit, request, cur, pending, out,
                   nrecv, nsent, ncalls, outcome>>

\* a variant in which an exception that leaves a handler stops the server
\* and with it every connection
Receive_CrashStopsServer(c) ==
    /\ AtReceive(c)
    /\ ~LoopBlocked
    /\ open[c]
    /\ inbox[c] # <<>>
    /\ LET m == Head(inbox[c])
           p == Process(m, request[c])
       IN  /\ inbox' = [inbox EXCEPT ![c] = Tail(@)]
           /\ nrecv' = [nrecv EXCEPT ![c] = @ + 1]
           /\ cur' = [cur EXCEPT ![c] = m]
           /\ request' = [request EXCEPT ![c] = RequestAfter(m, @)]
           /\ ncalls' = [ncalls EXCEPT ![c] = IF p.kind = "await" THEN 1 ELSE 0]
           /\ outcome' = [outcome EXCEPT ![c] = Unbound]
           /\ pending' = [pending EXCEPT
                            ![c] = IF p.kind = "respond" THEN p.response ELSE Unbound]
           /\ pc' = [pc EXCEPT ![c] = CASE p.kind = "respond" -> "send"
                                        [] p.kind = "await"   -> "provider"
                                        [] p.kind = "raise"   -> "ended"]
           /\ exit' = [exit EXCEPT ![c] = IF p.kind = "raise" THEN "exception" ELSE @]
           /\ open' = IF p.kind = "raise" THEN [d \in Conns |-> FALSE] ELSE open
    /\ UNCHANGED <<clients, out, nsent>>

\* `async for message in websocket` yields a message and the loop body runs
\* up to its first suspension
Receive(c) ==
    /\ AtReceive(c)
    /\ ~LoopBlocked
    /\ open[c]
    /\ inbox[c] # <<>>
    /\ LET m == Head(inbox[c])
           p == Process(m, request[c])
       IN  /\ inbox' = [inbox EXCEPT ![c] = Tail(@)]
           /\ nrecv' = [nrecv EXCEPT ![c] = @ + 1]
           /\ cur' = [cur EXCEPT ![c] = m]
           /\ request' = [request EXCEPT ![c] = RequestAfter(m, @)]
           /\ ncalls' = [ncalls EXCEPT ![c] = IF p.kind = "await" THEN 1 ELSE 0]
           /\ outcome' = [outcome EXCEPT ![c] = Unbound]
           /\ pending' = [pending EXCEPT
                            ![c] = IF p.kind = "respond" THEN p.response ELSE Unbound]
           /\ pc' = [pc EXCEPT ![c] = CASE p.kind = "respond" -> "send"
                                        [] p.kind = "await"   -> "provider"
                                        [] p.kind = "raise"   -> "ended"]
           /\ exit' = [exit EXCEPT ![c] = IF p.kind = "raise" THEN "exception" ELSE @]
           /\ open' = [open EXCEPT ![c] = IF p.kind = "raise" THEN FALSE ELSE @]
    /\ UNCHANGED <<clients, out, nsent>>

\* a variant that calls the provider once more when the call has raised
ProviderReturn_Retries(c, o) ==
    /\ pc[c] = "provider"
    /\ o \in Outcomes
    /\ IF ~IsDouble(o) /\ o.raised /\ ncalls[c] < 2
       THEN /\ ncalls' = [ncalls EXCEPT ![c] = @ + 1]
            /\ UNCHANGED <<pending, outcome, pc>>
       ELSE /\ pending' = [pending EXCEPT ![c] = Resume(request[c], o)]
            /\ outcome' = [outcome EXCEPT ![c] = o]
            /\ pc' = [pc EXCEPT ![c] = "send"]
            /\ UNCHANGED ncalls
    /\ UNCHANGED <<clients, inbox, open, exit, request, cur, out, nrecv, nsent>>

\* the provider call of connection c's tools/call ends with outcome o
ProviderReturn(c, o) ==
    /\ pc[c] = "provider"
    /\ o \in Outcomes
    /\ pending' = [pending EXCEPT ![c] = Resume(request[c], o)]
    /\ outcome' = [outcome EXCEPT ![c] = o]
    /\ pc' = [pc EXCEPT ![c] = "send"]
    /\ UNCHANGED <<clients, inbox, open, exit, request, cur, out,
                   nrecv, nsent, ncalls>>

\* websocket.send: the envelope leaves, or the closed transport raises
\* ConnectionClosed, which the except clause's own send raises again
Send(c) ==
    /\ pc[c] = "send"
    /\ ~LoopBlocked
    /\ IF open[c]
       THEN /\ out' = [out EXCEPT ![c] = [seq |-> nrecv[c], msg |-> cur[c],
                                          wire |-> json_dumps(pending[c]),
                                          calls |-> ncalls[c],
                                          provider |-> outcome[c]]]
            /\ nsent' = [nsent EXCEPT ![c] = @ + 1]
            /\ pc' = [pc EXCEPT ![c] = "recv"]
            /\ UNCHANGED exit
       ELSE /\ pc' = [pc EXCEPT ![c] = "ended"]
            /\ exit' = [exit EXCEPT ![c] = "transport"]
            /\ UNCHANGED <<out, nsent>>
    /\ pending' = [pending EXCEPT ![c] = Unbound]
    /\ UNCHANGED <<clients, inbox, open, request, cur, nrecv, ncalls, outcome>>

\* `async for` ends: the transport has closed
LoopEnd(c) ==
    /\ AtReceive(c)
    /\ ~LoopBlocked
    /\ ~open[c]
    /\ pc' = [pc EXCEPT ![c] = "ended"]
    /\ exit' = [exit EXCEPT ![c] = "transport"]
    /\ UNCHANGED <<clients, inbox, open, request, cur, pending, out,
                   nrecv, nsent, ncalls, outcome>>

Next ==
    \/ \E c \in Conns, m \in Alphabet : ClientSend(c, m)
    \/ \E c \in Conns : TransportClose(c)
    \/ \E c \in Conns : Receive(c)
    \/ \E c \in Conns, o \in Outcomes : ProviderReturn(c, o)
    \/ \E c \in Conns : Send(c)
    \/ \E c \in Conns : LoopEnd(c)

Spec == Init /\ [][Next]_vars

SpecConc == InitConc /\ [][Next]_vars

SpecStub == InitStub /\ [][Next]_vars

-----------------------------------------------------------------------------
(* What a client observes.                                                 *)

\* connection c has sent at least one envelope
Answered(c) == out[c].seq > 0

\* json.loads(response) at the client, for the last envelope sent on c
Reply(c) == json_loads(out[c].wire).value

\* m is the JSON document of an object
IsRequestObject(m) == m.json /\ IsDict(m.value)

\* the method of a request object, None when it has none
MethodOf(m) == DictGet(m.value, "method", None)

RecognizedMethods == {JStr("initialize"), JStr("tools/list"), JStr("tools/call")}

\* the envelope e is a protocol error with the given code
IsError(e, code) ==
    /\ HasKey(e, "error") /\ ~HasKey(e, "result")
    /\ IsDict(Lookup(e, "error"))
    /\ DictGet(Lookup(e, "error"), "code", None) = JInt(code)

\* the envelope e is a success whose content is the one text block t
IsTextResult(e, t) ==
    /\ HasKey(e, "result") /\ ~HasKey(e, "error")
    /\ Lookup(e, "result") =
         JDict(<<KV("content",
                    JList(<<JDict(<<KV("type", JStr("text")), KV("text", JStr(t))>>)>>))>>)

-----------------------------------------------------------------------------
(* The claims.                                                             *)

\* C1: whatever a received message holds, the handler sends a response and
\* goes on to the next receive: its loop ends only because the transport
\* closed, and at every receive all messages taken so far are answered.
C1_LoopSurvivesContent ==
    \A c \in Conns :
        /\ pc[c] = "ended" => exit[c] = "transport"
        /\ pc[c] = "recv" => nsent[c] = nrecv[c]

\* C2: the error response to a message that fails to decode as JSON carries
\* id null, wherever the message stands in the connection's sequence.
C2_DecodeFailureIdNull ==
    \A c \in Conns :
        (Answered(c) /\ ~out[c].msg.json) => Lookup(Reply(c), "id") = None

\* the envelope a fresh connection sends for message m when the provider
\* call, if one is made, does o
FreshAnswer(m, o) ==
    LET p == Process(m, Unbound)
    IN  IF p.kind = "await" THEN Resume(RequestAfter(m, Unbound), o)
        ELSE p.response

\* C3: a non-JSON message is answered by an error with code -32603 and does
\* not end the handler; the request object received next on the connection
\* is answered as a fresh connection answers it.
C3_GarbageThenRequest ==
    \A c \in Conns :
        /\ (cur[c] # Unbound /\ ~cur[c].json) =>
              /\ exit[c] # "exception"
              /\ pc[c] = "send" => IsError(pending[c], -32603)
              /\ (Answered(c) /\ out[c].seq = nrecv[c]) => IsError(Reply(c), -32603)
        /\ (/\ Answered(c) /\ ~out[c].msg.json
            /\ nrecv[c] = out[c].seq + 1
            /\ IsRequestObject(cur[c])
            /\ pc[c] = "send") =>
              pending[c] = FreshAnswer(cur[c], outcome[c])

\* C3 witness: a garbage message was answered with -32603 and the tools/call
\* that followed it has its result ready to send.
C3_Witness ==
    \E c \in Conns :
        /\ Answered(c) /\ ~out[c].msg.json /\ IsError(Reply(c), -32603)
        /\ nrecv[c] = out[c].seq + 1 /\ pc[c] = "send"
        /\ IsRequestObject(cur[c]) /\ MethodOf(cur[c]) = JStr("tools/call")
        /\ ncalls[c] = 1
        /\ HasKey(pending[c], "result")

\* C4: the response to a request object whose method is initialize,
\* tools/list or tools/call carries that request's id, and null when the
\* request has no id.
C4_IdEchoed ==
    \A c \in Conns :
        (/\ Answered(c) /\ IsRequestObject(out[c].msg)
         /\ MethodOf(out[c].msg) \in RecognizedMethods) =>
            /\ HasKey(Reply(c), "id")
            /\ Lookup(Reply(c), "id") = DictGet(out[c].msg.value, "id", None)

\* C4 witness: a tools/call without params mapping, carrying id "a", was
\* answered with id "a".
C4_Witness ==
    \E c \in Conns :
        /\ Answered(c) /\ IsRequestObject(out[c].msg)
        /\ MethodOf(out[c].msg) = JStr("tools/call")
        /\ DictGet(out[c].msg.value, "params", Unbound) = None
        /\ Lookup(Reply(c), "id") = JStr("a")

\* C5: every envelope sent holds exactly one of result and error, the
\* jsonrpc marker "2.0" and an id, and nothing else.
C5_ExactlyOneOfResultError ==
    \A c \in Conns :
        Answered(c) =>
            LET e == Reply(c)
            IN  /\ IsDict(e)
                /\ HasKey(e, "result") # HasKey(e, "error")
                /\ HasKey(e, "jsonrpc") /\ Lookup(e, "jsonrpc") = JStr("2.0")
                /\ HasKey(e, "id")
                /\ Len(e.items) = 3

\* C5 witness: the second envelope of a connection is the error for an
\* undecodable message that followed a decoded one.
C5_Witness ==
    \E c \in Conns :
        /\ out[c].seq = 2
        /\ HasKey(Reply(c), "error")
        /\ request[c] # Unbound /\ ~out[c].msg.json

\* C6: on one connection handling is sequential: at most one message is
\* unanswered at any time, none when the handler stands at the receive; the
\* k-th envelope sent answers the k-th message received; and while a
\* provider call runs every earlier message has been answered.
C6_Sequential ==
    \A c \in Conns :
        /\ nsent[c] <= nrecv[c] /\ nrecv[c] <= nsent[c] + 1
        /\ pc[c] = "recv" => nsent[c] = nrecv[c]
        /\ pc[c] \in {"provider", "send"} => nrecv[c] = nsent[c] + 1
        /\ Answered(c) => out[c].seq = nsent[c]

\* C6 witness: a client has sent two tools/call ahead; the first is
\* answered and the provider call of the second is running.
C6_Witness ==
    \E c \in Conns :
        /\ clients = "pipelined"
        /\ pc[c] = "provider" /\ nrecv[c] = 2 /\ nsent[c] = 1
        /\ out[c].seq = 1 /\ out[c].calls = 1

\* C7: while the tools/call of one connection waits for the provider, the
\* handler of another connection can take the message that has arrived for
\* it.
C7_OtherConnectionsProceed ==
    \A c, d \in Conns :
        (/\ c # d /\ pc[c] = "provider"
         /\ pc[d] = "recv" /\ open[d] /\ inbox[d] # <<>>) => ENABLED Receive(d)

\* C8: a request object whose method is a string other than initialize,
\* tools/list and tools/call is answered by an error with code -32601 whose
\* message names the method and whose id is the request's; no provider call
\* is made for it.
C8_MethodNotFound ==
    \A c \in Conns :
        (/\ Answered(c) /\ IsRequestObject(out[c].msg)
         /\ MethodOf(out[c].msg).type = "str"
         /\ MethodOf(out[c].msg) \notin RecognizedMethods) =>
            /\ IsError(Reply(c), -32601)
            /\ Lookup(Lookup(Reply(c), "error"), "message")
                 = JStr("Method not found: " \o MethodOf(out[c].msg).s)
            /\ Lookup(Reply(c), "id") = DictGet(out[c].msg.value, "id", None)
            /\ out[c].calls = 0 /\ out[c].provider = Unbound

\* C8 witness: foo/bar with id "a" was answered by error -32601.
C8_Witness ==
    \E c \in Conns :
        /\ Answered(c) /\ IsRequestObject(out[c].msg)
        /\ MethodOf(out[c].msg) = JStr("foo/bar")
        /\ IsError(Reply(c), -32601)
        /\ Lookup(Reply(c), "id") = JStr("a")

\* m is a tools/call whose params is absent or a mapping
IsToolsCall(m) ==
    /\ IsRequestObject(m)
    /\ MethodOf(m) = JStr("tools/call")
    /\ IsDict(DictGet(m.value, "params", JDict(<<>>)))

\* the name and the arguments of a tools/call, Unbound when absent
NameOf(m) == DictGet(DictGet(m.value, "params", JDict(<<>>)), "name", Unbound)
ArgumentsOf(m) ==
    DictGet(DictGet(m.value, "params", JDict(<<>>)), "arguments", Unbound)

\* C9: a tools/call (params absent or a mapping) whose name is absent or
\* not smart_web_search is answered, whatever its arguments, by a result
\* holding the one text block "Unknown tool: <name>"; no provider call is
\* made for it.
C9_UnknownTool ==
    \A c \in Conns :
        (/\ Answered(c) /\ IsToolsCall(out[c].msg)
         /\ NameOf(out[c].msg) # JStr("smart_web_search")) =>
            /\ IsTextResult(Reply(c),
                 "Unknown tool: " \o (IF NameOf(out[c].msg) = Unbound THEN "None"
                                      ELSE PyStr(NameOf(out[c].msg))))
            /\ out[c].calls = 0 /\ out[c].provider = Unbound

\* C9 witness: tool "other" called with arguments null was answered by a
\* result.
C9_Witness ==
    \E c \in Conns :
        /\ Answered(c) /\ IsToolsCall(out[c].msg)
        /\ NameOf(out[c].msg) = JStr("other")
        /\ ArgumentsOf(out[c].msg) = None
        /\ IsTextResult(Reply(c), "Unknown tool: other")

\* C10: a tools/call for smart_web_search whose arguments is absent, not a
\* mapping, or a mapping without query is answered by a result holding one
\* text block that describes the invalid arguments; no provider call is
\* made for it.
C10_InvalidArguments ==
    \A c \in Conns :
        (/\ Answered(c) /\ IsToolsCall(out[c].msg)
         /\ NameOf(out[c].msg) = JStr("smart_web_search")
         /\ \/ ArgumentsOf(out[c].msg) = Unbound
            \/ ~IsDict(ArgumentsOf(out[c].msg))
            \/ ~HasKey(ArgumentsOf(out[c].msg), "query")) =>
            /\ IsTextResult(Reply(c),
                 "Invalid arguments for smart_web_search: "
                 \o (IF ArgumentsOf(out[c].msg) = Unbound THEN "{}"
                     ELSE PyStr(ArgumentsOf(out[c].msg))))
            /\ out[c].calls = 0 /\ out[c].provider = Unbound

\* C10 witness: smart_web_search called with arguments null was answered by
\* a result.
C10_Witness ==
    \E c \in Conns :
        /\ Answered(c) /\ IsToolsCall(out[c].msg)
        /\ NameOf(out[c].msg) = JStr("smart_web_search")
        /\ ArgumentsOf(out[c].msg) = None
        /\ IsTextResult(Reply(c), "Invalid arguments for smart_web_search: None")

\* m is a tools/call that names smart_web_search and whose arguments is a
\* mapping holding query
ValidCall(m) ==
    /\ IsToolsCall(m)
    /\ NameOf(m) = JStr("smart_web_search")
    /\ IsDict(ArgumentsOf(m))
    /\ HasKey(ArgumentsOf(m), "query")

\* C11: when the search adapter itself raises (a double that raises in its
\* place), the tools/call is still answered by a result whose one text block
\* is "Search failed: " followed by the failure's description.
C11_AdapterRaiseIsResult ==
    \A c \in Conns :
        (Answered(c) /\ ValidCall(out[c].msg) /\ IsDouble(out[c].provider)) =>
            IsTextResult(Reply(c), "Search failed: " \o out[c].provider.desc)

\* the provider call with outcome o failed inside search_with_claude
ProviderFailed(o) ==
    /\ "raised" \in DOMAIN o
    /\ o.raised \/ LoopRaises(o.content)

\* C12: whenever the provider request fails (the call raises, or its
\* response cannot be read), search_with_claude returns "Search failed: "
\* followed by the failure's description, and the tools/call is answered by
\* a result holding that string as its one text block.
C12_ProviderFailureIsResult ==
    \A c \in Conns :
        (Answered(c) /\ ValidCall(out[c].msg) /\ ProviderFailed(out[c].provider)) =>
            IsTextResult(Reply(c),
                "Search failed: " \o (IF out[c].provider.raised
                                      THEN out[c].provider.desc ELSE NoTextError))

\* C12 witness: a response whose second block cannot be read was answered
\* by a result.
C12_Witness ==
    \E c \in Conns :
        /\ Answered(c) /\ ValidCall(out[c].msg)
        /\ out[c].provider = Returns(<<TextBlock("A"), TextlessBlock>>)
        /\ HasKey(Reply(c), "result")

\* C13: a message causes at most one provider call: one when it is a
\* tools/call naming smart_web_search with a mapping arguments holding
\* query, whatever the call does, and none otherwise.
C13_OneProviderCall ==
    \A c \in Conns :
        /\ ncalls[c] \in {0, 1}
        /\ cur[c] # Unbound => ncalls[c] = (IF ValidCall(cur[c]) THEN 1 ELSE 0)
        /\ Answered(c) =>
              /\ out[c].calls = (IF ValidCall(out[c].msg) THEN 1 ELSE 0)
              /\ out[c].provider # Unbound <=> out[c].calls = 1

\* C13 witness: a tools/call whose provider call raised was answered after
\* one call.
C13_Witness ==
    \E c \in Conns :
        /\ Answered(c) /\ ValidCall(out[c].msg)
        /\ out[c].provider = Raises("Connection error.")
        /\ out[c].calls = 1

IsBadParamsCall(m) ==
    /\ IsRequestObject(m)
    /\ MethodOf(m) = JStr("tools/call")
    /\ HasKey(m.value, "params")
    /\ ~IsDict(Lookup(m.value, "params"))

\* C15: a tools/call whose params is present and not a mapping is answered
\* by an error with code -32603, the failure's description as message and
\* the request's id; the handler does not end on it.
C15_BadParamsInternalError ==
    \A c \in Conns :
        /\ (cur[c] # Unbound /\ IsBadParamsCall(cur[c])) =>
              /\ exit[c] # "exception"
              /\ pc[c] # "provider"
        /\ (Answered(c) /\ IsBadParamsCall(out[c].msg)) =>
              /\ IsError(Reply(c), -32603)
              /\ Lookup(Lookup(Reply(c), "error"), "message")
                   = JStr(NoGetError(Lookup(out[c].msg.value, "params")))
              /\ Lookup(Reply(c), "id") = DictGet(out[c].msg.value, "id", None)
              /\ out[c].calls = 0

\* C15 witness: a tools/call with params [] and id "a" was answered by the
\* error, and the handler stands at the next receive.
C15_Witness ==
    \E c \in Conns :
        /\ Answered(c) /\ IsBadParamsCall(out[c].msg)
        /\ Lookup(out[c].msg.value, "params") = JList(<<>>)
        /\ Lookup(Lookup(Reply(c), "error"), "message")
             = JStr("'list' object has no attribute 'get'")
        /\ Lookup(Reply(c), "id") = JStr("a")
        /\ pc[c] = "recv" /\ open[c] /\ nsent[c] = nrecv[c]

\* the step is a failure on connection c: its transport closes, its handler
\* ends, or it takes a message that is undecodable or no object
FailureStep(c) ==
    \/ open[c] /\ ~open'[c]
    \/ exit'[c] # exit[c]
    \/ /\ nrecv'[c] = nrecv[c] + 1
       /\ ~IsRequestObject(cur'[c])

\* the step leaves everything of connection d as it is
Untouched(d) ==
    /\ inbox'[d] = inbox[d] /\ open'[d] = open[d] /\ pc'[d] = pc[d]
    /\ exit'[d] = exit[d] /\ request'[d] = request[d] /\ cur'[d] = cur[d]
    /\ pending'[d] = pending[d] /\ out'[d] = out[d] /\ nrecv'[d] = nrecv[d]
    /\ nsent'[d] = nsent[d] /\ ncalls'[d] = ncalls[d] /\ outcome'[d] = outcome[d]

HasMethod(m, method) == IsRequestObject(m) /\ MethodOf(m) = JStr(method)

\* C17: initialize never fails and is pure: whatever its params and
\* whatever came before it, it is answered by a result holding the fixed
\* capability document (protocolVersion, serverInfo name and version,
\* capabilities with tools {} and streaming true) and the request's id, so
\* two calls with the same id get the same envelope; no provider call is
\* made for it.
C17_InitializePure ==
    \A c \in Conns :
        /\ (cur[c] # Unbound /\ HasMethod(cur[c], "initialize")) =>
              /\ exit[c] # "exception"
              /\ pc[c] # "provider"
        /\ (Answered(c) /\ HasMethod(out[c].msg, "initialize")) =>
              /\ Reply(c) =
                   JDict(<<
                     KV("jsonrpc", JStr("2.0")),
                     KV("result", JDict(<<
                        KV("protocolVersion", JStr("1.0.0")),
                        KV("serverInfo", JDict(<<
                           KV("name", JStr("smart_web_search-mcp")),
                           KV("version", JStr("1.0.0"))>>)),
                        KV("capabilities", JDict(<<
                           KV("tools", JDict(<<>>)),
                           KV("streaming", JBool(TRUE))>>))>>)),
                     KV("id", DictGet(out[c].msg.value, "id", None))>>)
              /\ out[c].calls = 0
              /\ (/\ pc[c] = "send"
                  /\ HasMethod(cur[c], "initialize")
                  /\ DictGet(cur[c].value, "id", None)
                       = DictGet(out[c].msg.value, "id", None))
                 => json_dumps(pending[c]) = out[c].wire

\* C17 witness: initialize with params null and id 1 was answered, and
\* initialize with a mapping as params and id 1 is about to be answered.
C17_Witness ==
    \E c \in Conns :
        /\ Answered(c) /\ HasMethod(out[c].msg, "initialize")
        /\ DictGet(out[c].msg.value, "params", Unbound) = None
        /\ DictGet(out[c].msg.value, "id", None) = JInt(1)
        /\ pc[c] = "send" /\ HasMethod(cur[c], "initialize")
        /\ IsDict(DictGet(cur[c].value, "params", None))
        /\ DictGet(cur[c].value, "id", None) = JInt(1)
        /\ json_dumps(pending[c]) = out[c].wire

\* the result r of tools/list holds exactly one descriptor, named
\* smart_web_search, whose input schema declares query of type string and
\* lists query as required
IsToolsListing(r) ==
    /\ IsDict(r) /\ HasKey(r, "tools")
    /\ Lookup(r, "tools").type = "list"
    /\ Len(Lookup(r, "tools").elems) = 1
    /\ LET tool   == Lookup(r, "tools").elems[1]
           schema == Lookup(tool, "inputSchema")
       IN  /\ Lookup(tool, "name") = JStr("smart_web_search")
           /\ Lookup(Lookup(Lookup(schema, "properties"), "query"), "type")
                = JStr("string")
           /\ \E n \in 1..Len(Lookup(schema, "required").elems) :
                 Lookup(schema, "required").elems[n] = JStr("query")

\* C18: tools/list, whatever its params and whatever came before it, is
\* answered by a result whose tools array holds exactly one descriptor,
\* named smart_web_search, with query declared a string and required; the
\* result is the same on every call.
C18_ToolsListFixed ==
    \A c \in Conns :
        (Answered(c) /\ HasMethod(out[c].msg, "tools/list")) =>
            /\ HasKey(Reply(c), "result") /\ ~HasKey(Reply(c), "error")
            /\ IsToolsListing(Lookup(Reply(c), "result"))
            /\ out[c].calls = 0
            /\ (pc[c] = "send" /\ HasMethod(cur[c], "tools/list"))
               => Lookup(pending[c], "result") = Lookup(Reply(c), "result")

\* C18 witness: tools/list was answered with the listing and a second
\* tools/list is about to get the same result.
C18_Witness ==
    \E c \in Conns :
        /\ Answered(c) /\ HasMethod(out[c].msg, "tools/list")
        /\ pc[c] = "send" /\ HasMethod(cur[c], "tools/list")
        /\ nrecv[c] = out[c].seq + 1
        /\ IsToolsListing(Lookup(Reply(c), "result"))
        /\ Lookup(pending[c], "result") = Lookup(Reply(c), "result")

\* C19: every message the handler receives is answered by exactly one
\* envelope unless the transport closes first: no message is answered
\* twice, and a handler stops with a message unanswered only because the
\* transport has closed.
C19_EveryMessageAnsweredOnce ==
    \A c \in Conns :
        /\ nsent[c] <= nrecv[c]
        /\ nrecv[c] <= nsent[c] + 1
        /\ (pc[c] = "ended" /\ nsent[c] < nrecv[c]) => exit[c] = "transport"

\* the provider call with outcome o returned blocks that can all be read
ProviderReturned(o) ==
    /\ "raised" \in DOMAIN o
    /\ ~o.raised /\ ~LoopRaises(o.content)

\* the texts of the blocks of type text among content, in their order
TextsOf(content) ==
    LET at == SelectSeq([n \in 1..Len(content) |-> n],
                        LAMBDA n : content[n].type = "text")
    IN  [k \in 1..Len(at) |-> content[at[k]].text]

RECURSIVE NewlineJoined(_)
\* the texts, each but the first preceded by a newline
NewlineJoined(texts) ==
    IF Len(texts) = 1 THEN texts[1]
    ELSE NewlineJoined(SubSeq(texts, 1, Len(texts) - 1))
             \o "\n" \o texts[Len(texts)]

\* C20: for every sequence of blocks the provider returns, the result of
\* search_with_claude is the texts of the blocks of type text, in the order
\* received, joined by newlines; tool-invocation blocks add nothing,
\* whether or not their input can be inspected; with no text block the
\* result is "No related search results found.".
C20_TextBlocksOnly ==
    \A c \in Conns :
        (Answered(c) /\ ValidCall(out[c].msg) /\ ProviderReturned(out[c].provider)) =>
            LET texts == TextsOf(out[c].provider.content)
            IN  /\ IsTextResult(Reply(c),
                       IF texts = <<>> THEN "No related search results found."
                       ELSE NewlineJoined(texts))
                /\ search_with_claude(out[c].provider) =
                       (IF texts = <<>> THEN "No related search results found."
                        ELSE NewlineJoined(texts))

\* C20 witness: a tool-invocation block whose input cannot be inspected,
\* followed by the text block B, was answered by the text B.
C20_Witness ==
    \E c \in Conns :
        /\ Answered(c) /\ ValidCall(out[c].msg)
        /\ out[c].provider =
             Returns(<<ToolUseBlock("web_search", JStr("not json")), TextBlock("B")>>)
        /\ IsTextResult(Reply(c), "B")

====
